---- MODULE Spec2Model ----
(***************************************************************************)
(* Iavra Localization - Core (src/unnamed/part_000) and the options menu   *)
(* plugin (src/js/plugins/iavra_localization_-_menu.js).                   *)
(*                                                                         *)
(* JavaScript strings are sequences of one-character strings, JavaScript   *)
(* values are records [type, s, n, props].  The handlers of the plugin run *)
(* to completion on one thread: while one is in progress (pc # "idle") no  *)
(* other handler starts.  The substitution loop of _replace is modelled    *)
(* pass by pass, so that a loop that never ends is a behaviour.  A         *)
(* drawTextEx call is in progress from its entry to its return or error    *)
(* (calls > 0); what runs meanwhile is what the host's drawTextEx calls.   *)
(***************************************************************************)
EXTENDS Integers, Sequences, FiniteSets, TLC

VARIABLES
    _lang,          \* the current language (a JavaScript value)
    _data,          \* property key -> null or flat table object
    pending,        \* language key -> XMLHttpRequests in flight
    dbPending,      \* host: the database load started by Scene_Boot.create is in flight
    dataSystem,     \* host: $dataSystem, null or the game title
    documentTitle,  \* host: document.title
    pc,             \* "idle", "replace" (inside the loop of _replace), "returned"
    op,             \* the handler in progress
    arg,            \* its argument
    r,              \* _replace: the local r
    ret,            \* the value the handler returned
    err,            \* the error the handler raised, "none" if none
    src,            \* history: language key -> the document last flattened for it
    before,         \* history: _lang when the handler in progress began
    languages,      \* _param_languages, fixed at construction
    _language,      \* menu plugin: the local _language behind ConfigManager.language
    config,         \* menu plugin: config.language of the config object of the
                    \* makeData or applyData call in progress
    _inDrawTextEx,  \* the marker set by Window_Base.prototype.drawTextEx
    calls           \* host: the drawTextEx calls in progress (on the call stack)

vars == <<_lang, _data, pending, dbPending, dataSystem, documentTitle,
          pc, op, arg, r, ret, err, src, before, languages,
          _language, config, _inDrawTextEx, calls>>

----------------------------------------------------------------------------
(* Bounds of the model *)

\* in-flight load requests per language
MaxPending == 1
\* drawTextEx calls nested in one another
MaxDepth == 2
\* length of the exhaustively enumerated input texts
MaxTextLen == 4

----------------------------------------------------------------------------
(* JavaScript values *)

Undefined == [type |-> "undefined", s |-> <<>>, n |-> 0, props |-> <<>>]
Null == [type |-> "null", s |-> <<>>, n |-> 0, props |-> <<>>]
Str(s) == [type |-> "string", s |-> s, n |-> 0, props |-> <<>>]
Num(n) == [type |-> "number", s |-> <<>>, n |-> n, props |-> <<>>]
Bool(b) == [type |-> "boolean", s |-> <<>>, n |-> IF b THEN 1 ELSE 0, props |-> <<>>]
Fun(name) == [type |-> "function", s |-> name, n |-> 0, props |-> <<>>]
\* a parsed JSON object or array: props is the sequence of its entries
\* [key, value] in the order for-in visits them
Obj(entries) == [type |-> "object", s |-> <<>>, n |-> 0, props |-> entries]
\* a flat table: props is a function from key to value
Table(t) == [type |-> "table", s |-> <<>>, n |-> 0, props |-> t]

Entry(k, v) == [key |-> k, value |-> v]

\* typeof
TypeOf(v) ==
    IF v.type \in {"object", "table", "null"} THEN "object" ELSE v.type

\* !!v taken to be false for an object without properties
Truthy_EmptyIsFalse(v) ==
    CASE v.type \in {"undefined", "null"} -> FALSE
      [] v.type = "string" -> v.s # <<>>
      [] v.type = "number" -> v.n # 0
      [] v.type = "boolean" -> v.n = 1
      [] v.type = "table" -> DOMAIN v.props # {}
      [] OTHER -> TRUE

\* !!v
Truthy(v) ==
    CASE v.type \in {"undefined", "null"} -> FALSE
      [] v.type = "string" -> v.s # <<>>
      [] v.type = "number" -> v.n # 0
      [] v.type = "boolean" -> v.n = 1
      [] OTHER -> TRUE

Digit(n) ==
    <<"0", "1", "2", "3", "4", "5", "6", "7", "8", "9">>[n + 1]

RECURSIVE Decimal(_)
Decimal(n) ==
    IF n < 10 THEN <<Digit(n)>> ELSE Decimal(n \div 10) \o <<Digit(n % 10)>>

UndefinedText == <<"u", "n", "d", "e", "f", "i", "n", "e", "d">>
NullText == <<"n", "u", "l", "l">>
TrueText == <<"t", "r", "u", "e">>
FalseText == <<"f", "a", "l", "s", "e">>
FunctionHead == <<"f", "u", "n", "c", "t", "i", "o", "n", " ">>
FunctionTail ==
    <<"(", ")", " ", "{", " ", "[", "n", "a", "t", "i", "v", "e", " ",
      "c", "o", "d", "e", "]", " ", "}">>
ObjectText ==
    <<"[", "o", "b", "j", "e", "c", "t", " ", "O", "b", "j", "e", "c", "t", "]">>

\* String(v), the conversion '' + v and String.prototype.replace apply
JSString(v) ==
    CASE v.type = "string" -> v.s
      [] v.type = "undefined" -> UndefinedText
      [] v.type = "null" -> NullText
      [] v.type = "number" -> Decimal(v.n)
      [] v.type = "boolean" -> IF v.n = 1 THEN TrueText ELSE FalseText
      [] v.type = "function" -> FunctionHead \o v.s \o FunctionTail
      [] OTHER -> ObjectText

----------------------------------------------------------------------------
(* Plain objects: the literal {} inherits from Object.prototype *)

ProtoKey == <<"_", "_", "p", "r", "o", "t", "o", "_", "_">>
ConstructorKey == <<"c", "o", "n", "s", "t", "r", "u", "c", "t", "o", "r">>
ToStringKey == <<"t", "o", "S", "t", "r", "i", "n", "g">>
ValueOfKey == <<"v", "a", "l", "u", "e", "O", "f">>

\* members every object made by {} inherits (the ones the model's texts name)
ObjectPrototype ==
    (ConstructorKey :> Fun(<<"O", "b", "j", "e", "c", "t">>))
    @@ (ToStringKey :> Fun(ToStringKey))
    @@ (ValueOfKey :> Fun(ValueOfKey))
    @@ (ProtoKey :> Obj(<<>>))

EmptyTable == [k \in {} |-> Undefined]

\* an assignment that keeps the value a key already has
SetProp_KeepFirst(t, key, value) ==
    IF key = ProtoKey \/ key \in DOMAIN t
        THEN t
        ELSE [k \in DOMAIN t \cup {key} |-> IF k = key THEN value ELSE t[k]]

\* result[key] = value on an object made by {}: "__proto__" is the inherited
\* accessor, whose setter ignores a value that is no object
SetProp(t, key, value) ==
    IF key = ProtoKey
        THEN t
        ELSE [k \in DOMAIN t \cup {key} |-> IF k = key THEN value ELSE t[k]]

\* d[k] on an object made by {}
GetProp(t, k) ==
    IF k \in DOMAIN t THEN t[k]
    ELSE IF k \in DOMAIN ObjectPrototype THEN ObjectPrototype[k]
    ELSE Undefined

----------------------------------------------------------------------------
(* _flatten *)

\* the keys for-in visits, with their values: the entries of an object or
\* array, the indices of a string, nothing for null and the other scalars
RECURSIVE Indices(_, _)
Indices(s, i) ==
    IF i > Len(s) THEN <<>>
    ELSE <<Entry(Decimal(i - 1), Str(<<s[i]>>))>> \o Indices(s, i + 1)

ForIn(object) ==
    CASE object.type = "object" -> object.props
      [] object.type = "string" -> Indices(object.s, 1)
      [] OTHER -> <<>>

\* the nested entries copied without the key of their parent
Join_NoPrefix(result, key, temp) ==
    [k \in DOMAIN result \cup DOMAIN temp |->
        IF k \in DOMAIN temp THEN temp[k] ELSE result[k]]

\* for(var x in temp) { result[key + '.' + x] = temp[x]; }
\* (the keys of temp are distinct, so the order of the visit does not matter)
Join(result, key, temp) ==
    LET joined == {key \o <<".">> \o x : x \in DOMAIN temp}
    IN  [k \in DOMAIN result \cup joined |->
            IF k \in joined
                THEN temp[CHOOSE x \in DOMAIN temp : key \o <<".">> \o x = k]
                ELSE result[k]]

RECURSIVE FlattenFrom(_, _, _)
RECURSIVE _flatten(_)
\* the loop of _flatten from entry i on, result being what it holds so far
FlattenFrom(es, i, result) ==
    IF i > Len(es) THEN result
    ELSE LET key == es[i].key
             value == es[i].value
         IN  IF TypeOf(value) = "object"
                 THEN FlattenFrom(es, i + 1, Join(result, key, _flatten(value)))
                 ELSE FlattenFrom(es, i + 1, SetProp(result, key, value))

_flatten(object) == FlattenFrom(ForIn(object), 1, EmptyTable)

----------------------------------------------------------------------------
(* _regex *)

_param_escape == <<"#", "{", "{", "k", "e", "y", "}", "}">>
KeyPlaceholder == <<"{", "k", "e", "y", "}">>

\* SubSeq that is empty outside the string
Slice(s, from, to) ==
    IF from < 1 \/ to > Len(s) \/ from > to THEN <<>> ELSE SubSeq(s, from, to)

\* where the first "{key}" of the escape code starts
KeyAt ==
    CHOOSE i \in 1..Len(_param_escape) :
        /\ Slice(_param_escape, i, i + Len(KeyPlaceholder) - 1) = KeyPlaceholder
        /\ \A j \in 1..(i - 1) :
              Slice(_param_escape, j, j + Len(KeyPlaceholder) - 1) # KeyPlaceholder

\* the literal text before and after the group ([\w\.]+?)
Prefix == Slice(_param_escape, 1, KeyAt - 1)
Suffix == Slice(_param_escape, KeyAt + Len(KeyPlaceholder), Len(_param_escape))

WordChars ==
    {"a", "b", "c", "d", "e", "f", "g", "h", "i", "j", "k", "l", "m", "n", "o",
     "p", "q", "r", "s", "t", "u", "v", "w", "x", "y", "z", "A", "B", "C", "D",
     "E", "F", "G", "H", "I", "J", "K", "L", "M", "N", "O", "P", "Q", "R", "S",
     "T", "U", "V", "W", "X", "Y", "Z", "0", "1", "2", "3", "4", "5", "6", "7",
     "8", "9", "_"}

\* a key class that takes every character
IsKeyChar_Any(c) == TRUE

\* [\w\.]
IsKeyChar(c) == c \in WordChars \cup {"."}

\* the length of the key of the match of _regex that starts at i, 0 if none
\* starts there: the prefix, then the fewest (one or more) key characters
\* after which the suffix follows
KeyLenAt(text, i) ==
    LET start == i + Len(Prefix)
        fits == {n \in 1..(Len(text) - start + 1) :
                    /\ \A j \in 0..(n - 1) : IsKeyChar(text[start + j])
                    /\ Slice(text, start + n, start + n + Len(Suffix) - 1) = Suffix}
    IN  IF Slice(text, i, start - 1) # Prefix \/ fits = {} THEN 0
        ELSE CHOOSE n \in fits : \A m \in fits : n <= m

\* a match is noticed only at the start of the text
HasMatch_AtStart(text) == Len(text) > 0 /\ KeyLenAt(text, 1) > 0

\* _regex matches somewhere in text (the replacer then sets f)
HasMatch(text) == \E i \in 1..Len(text) : KeyLenAt(text, i) > 0

\* text.replace(_regex, function(m, k) { return d[k]; }) from position i on:
\* matches are found left to right and do not overlap
RECURSIVE ReplaceFrom(_, _, _)
ReplaceFrom(text, i, d) ==
    IF i > Len(text) THEN <<>>
    ELSE LET n == KeyLenAt(text, i)
             start == i + Len(Prefix)
         IN  IF n = 0
                 THEN <<text[i]>> \o ReplaceFrom(text, i + 1, d)
                 ELSE JSString(GetProp(d, SubSeq(text, start, start + n - 1)))
                      \o ReplaceFrom(text, start + n + Len(Suffix), d)

\* the result of replace thrown away: r stays as it was
ReplaceAll_Discarded(text, d) == text

ReplaceAll(text, d) == ReplaceFrom(text, 1, d)

----------------------------------------------------------------------------
(* Configurations, language files and inputs the model draws from *)

En == Str(<<"e", "n">>)
De == Str(<<"d", "e">>)
Fr == Str(<<"f", "r">>)

\* the values of the "Languages" parameter after split and filter
LanguageConfigs == {<<>>, <<En>>, <<En, De>>}

\* a parsed JSON array
RECURSIVE ArrEntries(_, _)
ArrEntries(items, i) ==
    IF i > Len(items) THEN <<>>
    ELSE <<Entry(Decimal(i - 1), items[i])>> \o ArrEntries(items, i + 1)

Arr(items) == Obj(ArrEntries(items, 1))

TokA == <<"#", "{", "a", "}">>
TokB == <<"#", "{", "b", "}">>

\* {}
DocEmpty == Obj(<<>>)
\* {"a": "x", "b": {"a": "y"}}
DocNested ==
    Obj(<<Entry(<<"a">>, Str(<<"x">>)),
          Entry(<<"b">>, Obj(<<Entry(<<"a">>, Str(<<"y">>))>>))>>)
\* {"a": ["x", "y"]}
DocArray == Obj(<<Entry(<<"a">>, Arr(<<Str(<<"x">>), Str(<<"y">>)>>))>>)
\* {"a": "x#{b}", "b": "y"}
DocRef ==
    Obj(<<Entry(<<"a">>, Str(<<"x">> \o TokB)), Entry(<<"b">>, Str(<<"y">>))>>)
\* {"a": "#{b}", "b": "#{a}"}
DocCycle == Obj(<<Entry(<<"a">>, Str(TokB)), Entry(<<"b">>, Str(TokA))>>)
\* {"a": "#{a}"}
DocSelf == Obj(<<Entry(<<"a">>, Str(TokA))>>)
\* {"a": "#{#{b}", "b": "a}"}
DocAssemble ==
    Obj(<<Entry(<<"a">>, Str(<<"#", "{">> \o TokB)),
          Entry(<<"b">>, Str(<<"a", "}">>))>>)
\* {"a.b": "x", "a": {"b": "y"}}
DocCollide ==
    Obj(<<Entry(<<"a", ".", "b">>, Str(<<"x">>)),
          Entry(<<"a">>, Obj(<<Entry(<<"b">>, Str(<<"y">>))>>))>>)
\* {"a": {"b": "y"}, "a.b": "x"}
DocCollideLater ==
    Obj(<<Entry(<<"a">>, Obj(<<Entry(<<"b">>, Str(<<"y">>))>>)),
          Entry(<<"a", ".", "b">>, Str(<<"x">>))>>)
\* {"a": 12, "b": false}
DocScalars ==
    Obj(<<Entry(<<"a">>, Num(12)), Entry(<<"b">>, Bool(FALSE))>>)
\* {"a": null, "b": "x"}
DocNull == Obj(<<Entry(<<"a">>, Null), Entry(<<"b">>, Str(<<"x">>))>>)
\* {"__proto__": "x", "a": "y"}
DocProto ==
    Obj(<<Entry(ProtoKey, Str(<<"x">>)), Entry(<<"a">>, Str(<<"y">>))>>)

Documents ==
    {DocEmpty, DocNested, DocArray, DocRef, DocCycle, DocSelf, DocAssemble,
     DocCollide, DocCollideLater, DocScalars, DocNull, DocProto}

\* the files of the system-level specification
SysDocuments == {DocEmpty, DocRef}

TextAlphabet == {"#", "{", "a", "}"}

RECURSIVE StringsOfLen(_)
StringsOfLen(n) ==
    IF n = 0 THEN {<<>>}
    ELSE {<<c>> \o t : c \in TextAlphabet, t \in StringsOfLen(n - 1)}

\* texts with a key of more than one character, an absent key, an inherited
\* key, a token put together around another one
ProbeTexts ==
    {TokB,
     <<"x">> \o TokB \o <<"a">>,
     <<"#", "{", "c", "}">>,
     <<"#", "{", "a", ".", "b", "}">>,
     <<"#", "{", "b", ".", "a", "}">>,
     <<"#", "{", "a", ".", "0", "}">>,
     <<"#", "{">> \o ConstructorKey \o <<"}">>,
     <<"#", "{">> \o ProtoKey \o <<"}">>,
     <<"#", "{">> \o TokA \o <<"}">>,
     TokA \o <<"}">>}

\* the arguments of localize
Texts ==
    {Str(t) : t \in UNION {StringsOfLen(n) : n \in 0..MaxTextLen} \cup ProbeTexts}
    \cup {Undefined, Null, Num(5)}

SysTexts == {Str(<<"x">>), Str(TokA), Undefined}

\* the values assigned to IAVRA.I18N.language
LanguageValues == {En, De, Fr, Str(<<>>), Undefined, Null}

\* the configurations of the menu plugin: three languages tell the next
\* language from the previous one
MenuConfigs == {<<>>, <<En>>, <<En, De, Fr>>}

\* config.language of a config save file: a configured language, one that is
\* not configured, or no entry
It == Str(<<"i", "t">>)
SavedLanguages == {De, It, Undefined}

\* the texts drawn
DrawTexts == {Str(<<"x">>), Str(TokA), Str(<<"\\", "x">>)}

\* $dataSystem once loaded
System(title) == Obj(<<Entry(<<"gameTitle">>, title)>>)
GameTitles == {Str(<<"G">>), Str(TokA)}

----------------------------------------------------------------------------
(* State *)

\* the property key a value is used as
PropertyKey(v) == JSString(v)

LanguageKeys(langs) == {PropertyKey(langs[i]) : i \in 1..Len(langs)}

\* an array read that counts from one
At_FromOne(array, i) == IF i \in 1..Len(array) THEN array[i] ELSE Undefined

\* array[i], undefined outside the array
At(array, i) == IF i + 1 \in 1..Len(array) THEN array[i + 1] ELSE Undefined

\* a membership test that accepts every value
Contains_Any(array, value) == TRUE

\* Array.prototype.contains
Contains(array, value) == \E i \in 1..Len(array) : array[i] = value

\* _data[key]; _data has a null prototype, so an absent key is undefined
Data(key) ==
    IF PropertyKey(key) \in DOMAIN _data THEN _data[PropertyKey(key)] ELSE Undefined

\* _data[key] = value
SetData(data, key, value) ==
    [k \in DOMAIN data \cup {PropertyKey(key)} |->
        IF k = PropertyKey(key) THEN value ELSE data[k]]

InitWith(langs) ==
    /\ languages = langs
    /\ _lang = At(langs, 0)
    /\ _data = [k \in LanguageKeys(langs) |-> Null]
    /\ pending = [k \in LanguageKeys(langs) |-> 0]
    /\ src = [k \in LanguageKeys(langs) |-> <<>>]
    /\ dbPending = FALSE
    /\ dataSystem = Null
    /\ documentTitle = <<>>
    /\ pc = "idle"
    /\ op = "none"
    /\ arg = Undefined
    /\ r = <<>>
    /\ ret = Undefined
    /\ err = "none"
    /\ before = Undefined
    /\ _language = Undefined
    /\ config = Undefined
    /\ _inDrawTextEx = FALSE
    /\ calls = 0

Init == \E langs \in LanguageConfigs : InitWith(langs)

\* _isReady
_isReady == \A i \in 1..Len(languages) : Truthy(Data(languages[i]))

\* the host's Scene_Boot.prototype.isReady: the database is loaded
alias_isReady == Truthy(dataSystem)

\* Scene_Boot.prototype.isReady
isReady == _isReady /\ alias_isReady

----------------------------------------------------------------------------
(* Handlers *)

\* a handler that does not enter _replace returns at once
Returns(name, a, value) ==
    /\ pc' = "returned"
    /\ op' = name
    /\ arg' = a
    /\ r' = <<>>
    /\ ret' = value
    /\ err' = "none"
    /\ before' = _lang

\* _replace(text) up to its loop
Enter_replace(name, a, text) ==
    IF text.type \in {"undefined", "null"}
        THEN Returns(name, a, text)
        ELSE /\ pc' = "replace"
             /\ op' = name
             /\ arg' = a
             /\ r' = JSString(text)
             /\ ret' = Undefined
             /\ err' = "none"
             /\ before' = _lang

\* Scene_Boot.prototype.updateDocumentTitle up to the loop of _replace
updateDocumentTitle(name, a) ==
    IF Truthy(dataSystem)
        THEN Enter_replace(name, a, dataSystem.props[1].value)
        ELSE Returns(name, a, Undefined)

\* an initialization that empties the tables before it loads them again
create_Resetting ==
    /\ pc = "idle"
    /\ \A k \in DOMAIN pending : pending[k] < MaxPending
    /\ dbPending' = TRUE
    /\ dataSystem' = Null
    /\ pending' = [k \in DOMAIN pending |->
                      pending[k] + Cardinality({i \in 1..Len(languages) :
                                                   PropertyKey(languages[i]) = k})]
    /\ _data' = [k \in DOMAIN _data \cup {PropertyKey(Undefined)} |->
                    IF k = PropertyKey(Undefined) THEN Table(EmptyTable) ELSE Null]
    /\ UNCHANGED <<_lang, documentTitle, pc, op, arg, r, ret, err, src, before, languages>>
    /\ UNCHANGED <<_language, config, _inDrawTextEx, calls>>

\* Scene_Boot.prototype.create: the host starts loading the database, then
\* _initialize sends one request per language and stores the fallback table
create ==
    /\ pc = "idle"
    /\ \A k \in DOMAIN pending : pending[k] < MaxPending
    /\ dbPending' = TRUE
    /\ dataSystem' = Null
    /\ pending' = [k \in DOMAIN pending |->
                      pending[k] + Cardinality({i \in 1..Len(languages) :
                                                   PropertyKey(languages[i]) = k})]
    /\ _data' = SetData(_data, Undefined, Table(EmptyTable))
    /\ UNCHANGED <<_lang, documentTitle, pc, op, arg, r, ret, err, src, before, languages>>
    /\ UNCHANGED <<_language, config, _inDrawTextEx, calls>>

\* a load callback that drops what the other languages had stored
onload_ClearsOthers(key, document) ==
    /\ pc = "idle"
    /\ pending[key] > 0
    /\ pending' = [pending EXCEPT ![key] = @ - 1]
    /\ _data' = [k \in DOMAIN _data |->
                    IF k = key THEN Table(_flatten(document)) ELSE Null]
    /\ src' = [src EXCEPT ![key] = <<document>>]
    /\ UNCHANGED <<_lang, dbPending, dataSystem, documentTitle, pc, op, arg, r,
                   ret, err, before, languages>>
    /\ UNCHANGED <<_language, config, _inDrawTextEx, calls>>

\* request.onload of the file of lang: the callback of _initialize
onload(key, document) ==
    /\ pc = "idle"
    /\ pending[key] > 0
    /\ pending' = [pending EXCEPT ![key] = @ - 1]
    /\ _data' = [_data EXCEPT ![key] = Table(_flatten(document))]
    /\ src' = [src EXCEPT ![key] = <<document>>]
    /\ UNCHANGED <<_lang, dbPending, dataSystem, documentTitle, pc, op, arg, r,
                   ret, err, before, languages>>
    /\ UNCHANGED <<_language, config, _inDrawTextEx, calls>>

\* request.onerror, or JSON.parse raising in request.onload: nothing is stored
onerror(key) ==
    /\ pc = "idle"
    /\ pending[key] > 0
    /\ pending' = [pending EXCEPT ![key] = @ - 1]
    /\ UNCHANGED <<_lang, _data, src, dbPending, dataSystem, documentTitle, pc,
                   op, arg, r, ret, err, before, languages>>
    /\ UNCHANGED <<_language, config, _inDrawTextEx, calls>>

\* host: the database arrives
DataSystemLoaded(title) ==
    /\ pc = "idle"
    /\ dbPending
    /\ dbPending' = FALSE
    /\ dataSystem' = System(title)
    /\ UNCHANGED <<_lang, _data, pending, src, documentTitle, pc, op, arg, r,
                   ret, err, before, languages>>
    /\ UNCHANGED <<_language, config, _inDrawTextEx, calls>>

\* host: Scene_Boot.prototype.start, once isReady, sets the document title
start ==
    /\ pc = "idle"
    /\ isReady
    /\ updateDocumentTitle("start", Undefined)
    /\ UNCHANGED <<_lang, _data, pending, src, dbPending, dataSystem,
                   documentTitle, languages>>
    /\ UNCHANGED <<_language, config, _inDrawTextEx, calls>>

\* IAVRA.I18N.language = value
SetLanguage(value) ==
    /\ pc = "idle"
    /\ _lang' = IF Contains(languages, value) THEN value ELSE At(languages, 0)
    /\ updateDocumentTitle("set", value)
    /\ UNCHANGED <<_data, pending, src, dbPending, dataSystem, documentTitle,
                   languages>>
    /\ UNCHANGED <<_language, config, _inDrawTextEx, calls>>

\* a localize that falls back to the default language
localize_Coercing(text) ==
    /\ pc = "idle"
    /\ _lang' = At(languages, 0)
    /\ Enter_replace("localize", text, text)
    /\ UNCHANGED <<_data, pending, src, dbPending, dataSystem,
                   documentTitle, languages>>
    /\ UNCHANGED <<_language, config, _inDrawTextEx, calls>>

\* IAVRA.I18N.localize(text)
localize(text) ==
    /\ pc = "idle"
    /\ Enter_replace("localize", text, text)
    /\ UNCHANGED <<_lang, _data, pending, src, dbPending, dataSystem,
                   documentTitle, languages>>
    /\ UNCHANGED <<_language, config, _inDrawTextEx, calls>>

\* IAVRA.I18N.localize(IAVRA.I18N.localize(text)): the caller passes the
\* result of localize to localize again
relocalize ==
    /\ pc = "returned"
    /\ op = "localize"
    /\ err = "none"
    /\ Enter_replace("relocalize", ret, ret)
    /\ UNCHANGED <<_lang, _data, pending, src, dbPending, dataSystem,
                   documentTitle, languages>>
    /\ UNCHANGED <<_language, config, _inDrawTextEx, calls>>

\* _replace: d = _data[_lang], read when the loop is entered; no handler
\* changes _data or _lang before _replace returns
d == Data(_lang)

\* a _replace that returns after its first pass
ReplacePass_Single ==
    /\ pc = "replace"
    /\ HasMatch(r)
    /\ d.type = "table"
    /\ r' = ReplaceAll(r, d.props)
    /\ pc' = "returned"
    /\ ret' = Str(r')
    /\ UNCHANGED <<_lang, _data, pending, src, dbPending, dataSystem,
                   documentTitle, op, arg, err, before, languages>>
    /\ UNCHANGED <<_language, config, _inDrawTextEx, calls>>

\* _replace: a pass of the loop that replaces at least one match
ReplacePass ==
    /\ pc = "replace"
    /\ HasMatch(r)
    /\ d.type = "table"
    /\ r' = ReplaceAll(r, d.props)
    /\ UNCHANGED <<_lang, _data, pending, src, dbPending, dataSystem,
                   documentTitle, pc, op, arg, ret, err, before, languages>>
    /\ UNCHANGED <<_language, config, _inDrawTextEx, calls>>

\* _replace: d[k] raises a TypeError when d is null or undefined
ReplaceThrow ==
    /\ pc = "replace"
    /\ HasMatch(r)
    /\ d.type # "table"
    /\ pc' = "returned"
    /\ err' = "TypeError"
    /\ UNCHANGED <<_lang, _data, pending, src, dbPending, dataSystem,
                   documentTitle, op, arg, r, ret, before, languages>>
    /\ UNCHANGED <<_language, config, _inDrawTextEx, calls>>

\* the handlers that assign IAVRA.I18N.language
Setters == {"set", "makeData", "applyData"}

\* _replace: the pass without a match ends the loop and r is returned;
\* updateDocumentTitle assigns it to document.title, the setter returns, and
\* makeData and applyData go on with the language read back from the core
ReplaceReturn ==
    /\ pc = "replace"
    /\ ~HasMatch(r)
    /\ pc' = "returned"
    /\ ret' = Str(r)
    /\ documentTitle' = IF op \in Setters \cup {"start"} THEN r ELSE documentTitle
    /\ _language' = IF op \in {"makeData", "applyData"} THEN _lang ELSE _language
    /\ config' = IF op = "makeData" THEN _lang ELSE config
    /\ UNCHANGED <<_lang, _data, pending, src, dbPending, dataSystem, op, arg,
                   r, err, before, languages, _inDrawTextEx, calls>>

\* the caller has the result (or the error) and goes on; the config object of
\* makeData or applyData is the caller's
Return ==
    /\ pc = "returned"
    /\ pc' = "idle"
    /\ op' = "none"
    /\ arg' = Undefined
    /\ r' = <<>>
    /\ ret' = Undefined
    /\ err' = "none"
    /\ before' = Undefined
    /\ config' = Undefined
    /\ UNCHANGED <<_lang, _data, pending, src, dbPending, dataSystem,
                   documentTitle, languages>>
    /\ UNCHANGED <<_language, _inDrawTextEx, calls>>

----------------------------------------------------------------------------
(* Iavra Localization - Menu: the language option and the config save file *)

\* Array.prototype.indexOf
IndexOf(array, value) ==
    IF Contains(array, value)
        THEN CHOOSE i \in 0..(Len(array) - 1) :
                 /\ array[i + 1] = value
                 /\ \A j \in 0..(i - 1) : array[j + 1] # value
        ELSE -1

\* _prevLanguage
_prevLanguage(language) ==
    LET index == IndexOf(languages, language) + 1
    IN  At(languages, IF index >= Len(languages) THEN 0 ELSE index)

\* _nextLanguage
_nextLanguage(language) ==
    LET index == IndexOf(languages, language) - 1
    IN  At(languages, IF index < 0 THEN Len(languages) - 1 ELSE index)

\* an option change that applies the language to the core at once
changeValue_Applying(name, value) ==
    /\ pc = "idle"
    /\ _language' = value
    /\ _lang' = value
    /\ Returns(name, _language, Undefined)
    /\ UNCHANGED <<_data, pending, src, dbPending, dataSystem,
                   documentTitle, languages, config, _inDrawTextEx, calls>>

\* Window_Options.prototype.changeValue of the host for the symbol 'language':
\* ConfigManager.language = value
changeValue(name, value) ==
    /\ pc = "idle"
    /\ _language' = value
    /\ Returns(name, _language, Undefined)
    /\ UNCHANGED <<_lang, _data, pending, src, dbPending, dataSystem,
                   documentTitle, languages, config, _inDrawTextEx, calls>>

\* Window_Options.prototype.processOk on the 'language' command
processOk == changeValue("processOk", _nextLanguage(_language))

\* Window_Options.prototype.cursorLeft on the 'language' command
cursorLeft == changeValue("cursorLeft", _prevLanguage(_language))

\* Window_Options.prototype.cursorRight on the 'language' command
cursorRight == changeValue("cursorRight", _nextLanguage(_language))

\* _applyLanguage(language) up to the loop of _replace: the setter of
\* IAVRA.I18N.language; the getter is read when the setter has returned
_applyLanguage(name, language) ==
    /\ _lang' = IF Contains(languages, language) THEN language ELSE At(languages, 0)
    /\ updateDocumentTitle(name, language)

\* ConfigManager.makeData: config is the object alias_makeData returns, which
\* has no language yet
makeData ==
    /\ pc = "idle"
    /\ _applyLanguage("makeData", _language)
    /\ IF pc' = "returned"
          THEN _language' = _lang' /\ config' = _lang'
          ELSE UNCHANGED <<_language, config>>
    /\ UNCHANGED <<_data, pending, src, dbPending, dataSystem, documentTitle,
                   languages, _inDrawTextEx, calls>>

\* ConfigManager.applyData(config), saved being config.language (undefined
\* when the save file has no such entry); config itself is not written
applyData(saved) ==
    /\ pc = "idle"
    /\ config' = saved
    /\ _applyLanguage("applyData", saved)
    /\ _language' = IF pc' = "returned" THEN _lang' ELSE _language
    /\ UNCHANGED <<_data, pending, src, dbPending, dataSystem, documentTitle,
                   languages, _inDrawTextEx, calls>>

----------------------------------------------------------------------------
(* Drawing text *)

\* the host's ESC character
Esc == "ESC"

\* the host's Window_Base.prototype.convertEscapeCharacters on a text that
\* holds none of the codes that read game data: every backslash becomes ESC,
\* then every two ESC become one backslash
RECURSIVE Backslashes(_)
Backslashes(s) ==
    IF s = <<>> THEN <<>>
    ELSE IF Len(s) >= 2 /\ s[1] = "\\" /\ s[2] = "\\"
        THEN <<"\\">> \o Backslashes(Tail(Tail(s)))
    ELSE IF s[1] = "\\" THEN <<Esc>> \o Backslashes(Tail(s))
    ELSE <<s[1]>> \o Backslashes(Tail(s))

alias_convertEscapeCharacters(text) == Str(Backslashes(text.s))

\* Window_Base.prototype.drawTextEx up to the call of alias_drawTextEx, which
\* then converts the text and draws it character by character; code that
\* alias_drawTextEx runs may call drawTextEx again
drawTextEx ==
    /\ pc = "idle"
    /\ calls < MaxDepth
    /\ _inDrawTextEx' = TRUE
    /\ calls' = calls + 1
    /\ UNCHANGED <<_lang, _data, pending, dbPending, dataSystem, documentTitle,
                   pc, op, arg, r, ret, err, src, before, languages,
                   _language, config>>

\* Window_Base.prototype.drawTextEx from the return of alias_drawTextEx on
drawTextExReturn ==
    /\ pc = "idle"
    /\ calls > 0
    /\ _inDrawTextEx' = FALSE
    /\ calls' = calls - 1
    /\ UNCHANGED <<_lang, _data, pending, dbPending, dataSystem, documentTitle,
                   pc, op, arg, r, ret, err, src, before, languages,
                   _language, config>>

\* an error raised inside alias_drawTextEx leaves drawTextEx: the statements
\* after the call are skipped, and the error goes on to the caller
drawTextExRaise ==
    /\ pc = "returned"
    /\ err # "none"
    /\ calls > 0
    /\ calls' = calls - 1
    /\ UNCHANGED <<_lang, _data, pending, dbPending, dataSystem, documentTitle,
                   pc, op, arg, r, ret, err, src, before, languages,
                   _language, config, _inDrawTextEx>>

\* Window_Base.prototype.convertEscapeCharacters, called by alias_drawTextEx:
\* the inner _replace(text)
convertEscapeCharacters(text) ==
    /\ pc = "idle"
    /\ calls > 0
    /\ Enter_replace("convertEscapeCharacters", text, text)
    /\ UNCHANGED <<_lang, _data, pending, src, dbPending, dataSystem,
                   documentTitle, languages>>
    /\ UNCHANGED <<_language, config, _inDrawTextEx, calls>>

\* Window_Base.prototype.convertEscapeCharacters: the outer _replace, of the
\* text the host converted
convertEscapeCharacters_outer ==
    /\ pc = "returned"
    /\ op = "convertEscapeCharacters"
    /\ err = "none"
    /\ Enter_replace("convertEscapeCharacters_outer", arg,
                     alias_convertEscapeCharacters(ret))
    /\ UNCHANGED <<_lang, _data, pending, src, dbPending, dataSystem,
                   documentTitle, languages>>
    /\ UNCHANGED <<_language, config, _inDrawTextEx, calls>>

\* Bitmap.prototype.drawText: ret is the text passed on to alias_drawText
drawText(text) ==
    /\ pc = "idle"
    /\ IF _inDrawTextEx
          THEN Returns("drawText", text, text)
          ELSE Enter_replace("drawText", text, text)
    /\ UNCHANGED <<_lang, _data, pending, src, dbPending, dataSystem,
                   documentTitle, languages>>
    /\ UNCHANGED <<_language, config, _inDrawTextEx, calls>>

----------------------------------------------------------------------------
(* Specifications *)

Next ==
    \/ create
    \/ \E k \in DOMAIN pending, document \in SysDocuments : onload(k, document)
    \/ \E k \in DOMAIN pending : onerror(k)
    \/ \E title \in GameTitles : DataSystemLoaded(title)
    \/ start
    \/ \E value \in LanguageValues : SetLanguage(value)
    \/ \E text \in SysTexts : localize(text)
    \/ ReplacePass
    \/ ReplaceThrow
    \/ ReplaceReturn
    \/ Return

Spec == Init /\ [][Next]_vars

\* The core alone (flattener, matcher, resolver): one language or none, every
\* document, every text
InitCore == \E langs \in {<<>>, <<En>>} : InitWith(langs)

NextResolve ==
    \/ create
    \/ \E k \in DOMAIN pending, document \in Documents : onload(k, document)
    \/ \E text \in Texts : localize(text)
    \/ ReplacePass
    \/ ReplaceThrow
    \/ ReplaceReturn
    \/ Return

NextCore == NextResolve \/ relocalize

SpecCore == InitCore /\ [][NextCore]_vars

\* _replace runs on: the loop takes its next pass, or returns, or raises
Progress ==
    WF_vars(ReplacePass) /\ WF_vars(ReplaceThrow) /\ WF_vars(ReplaceReturn)

SpecResolveFair == InitCore /\ [][NextResolve]_vars /\ Progress

\* The core with the menu plugin; every language file is
\* {"a": "x#{b}", "b": "y"}, the game title and the resolved text are "#{a}"
NextMenu ==
    \/ create
    \/ \E k \in DOMAIN pending : onload(k, DocRef)
    \/ \E k \in DOMAIN pending : onerror(k)
    \/ DataSystemLoaded(Str(TokA))
    \/ start
    \/ \E value \in LanguageValues : SetLanguage(value)
    \/ localize(Str(TokA))
    \/ ReplacePass
    \/ ReplaceThrow
    \/ ReplaceReturn
    \/ Return
    \/ processOk
    \/ cursorLeft
    \/ cursorRight
    \/ makeData
    \/ \E saved \in SavedLanguages : applyData(saved)

InitMenu == \E langs \in MenuConfigs : InitWith(langs)

SpecMenu == InitMenu /\ [][NextMenu]_vars

\* Drawing: nothing but what drawTextEx calls runs while it is in progress
NextDraw ==
    \/ calls = 0 /\ create
    \/ calls = 0 /\ \E k \in DOMAIN pending, document \in SysDocuments : onload(k, document)
    \/ drawTextEx
    \/ \E text \in DrawTexts : convertEscapeCharacters(text)
    \/ convertEscapeCharacters_outer
    \/ drawTextExReturn
    \/ drawTextExRaise
    \/ \E text \in DrawTexts : drawText(text)
    \/ ReplacePass
    \/ ReplaceThrow
    \/ ReplaceReturn
    \/ Return

InitDraw == InitWith(<<En>>)

SpecDraw == InitDraw /\ [][NextDraw]_vars

----------------------------------------------------------------------------
(* What the claims speak of *)

Configured == {languages[i] : i \in 1..Len(languages)}

\* the default language: the first configured one (undefined when none is)
Default == IF languages = <<>> THEN Undefined ELSE Head(languages)

\* a load callback has stored a table for every configured language
AllStored == \A v \in Configured : src[PropertyKey(v)] # <<>>

\* text holds, from position i on, a token with a key of n characters
IsTokenAt(text, i, n) ==
    /\ n >= 1
    /\ i + Len(Prefix) + n + Len(Suffix) - 1 <= Len(text)
    /\ SubSeq(text, i, i + Len(Prefix) - 1) = Prefix
    /\ \A j \in 1..n : text[i + Len(Prefix) + j - 1] \in WordChars \cup {"."}
    /\ SubSeq(text, i + Len(Prefix) + n, i + Len(Prefix) + n + Len(Suffix) - 1)
           = Suffix

TokensOf(text) ==
    {<<i, n>> \in (1..Len(text)) \X (1..Len(text)) : IsTokenAt(text, i, n)}

KeyOf(text, tok) ==
    SubSeq(text, tok[1] + Len(Prefix), tok[1] + Len(Prefix) + tok[2] - 1)

ContainsToken(text) == TokensOf(text) # {}

\* text with every token replaced by the text "undefined"
RECURSIVE AllUndefinedFrom(_, _)
AllUndefinedFrom(text, i) ==
    IF i > Len(text) THEN <<>>
    ELSE IF \E n \in 1..Len(text) : IsTokenAt(text, i, n)
        THEN LET n == CHOOSE n \in 1..Len(text) : IsTokenAt(text, i, n)
             IN  UndefinedText
                 \o AllUndefinedFrom(text, i + Len(Prefix) + n + Len(Suffix))
        ELSE <<text[i]>> \o AllUndefinedFrom(text, i + 1)

AllUndefined(text) == AllUndefinedFrom(text, 1)

\* the document stored for the active language, <<>> if none
ActiveDocument ==
    IF PropertyKey(_lang) \in DOMAIN src THEN src[PropertyKey(_lang)] ELSE <<>>

\* a call of localize has returned or raised
Localized == pc = "returned" /\ op = "localize"

\* localize was called with a string
LocalizedText == Localized /\ arg.type = "string"

----------------------------------------------------------------------------
(* C1: after IAVRA.I18N.language = v, the language read back is v when v is
   configured and the first configured language for every other v (undefined,
   null and "" included), whatever the language was before. *)
C1_SetThenGet ==
    (pc = "returned" /\ op = "set")
        => _lang = (IF arg \in Configured THEN arg ELSE Default)

\* C1, witness: German was active, French (not configured) is set, English is read back
C1_Witness ==
    /\ pc = "returned" /\ op = "set"
    /\ languages = <<En, De>>
    /\ before = De
    /\ arg = Fr
    /\ _lang = En

(* C2: the setter never raises, for every value and at every point of the
   startup sequence. *)
C2_SetterNeverRaises ==
    (pc = "returned" /\ op = "set") => err = "none"

(* C3: _isReady is true exactly when every configured language has a stored
   flat table, whatever the document was (the empty one included); isReady of
   Scene_Boot is true only then; the fallback entry of the unrecognized
   language does not count. *)
C3_ReadyIffAllStored ==
    /\ _isReady <=> AllStored
    /\ isReady => AllStored

\* C3, witness: ready with the empty document stored for English
C3_Witness ==
    /\ languages = <<En, De>>
    /\ _isReady
    /\ src[PropertyKey(En)] = <<DocEmpty>>
    /\ UndefinedText \in DOMAIN _data

(* C4: localize called while the table of the active language is not loaded,
   or while the active language is the unrecognized one, behaves as with an
   empty table: every token becomes "undefined" and no error is raised. *)
C4_UnloadedAsEmpty ==
    (LocalizedText /\ (_lang = Undefined \/ Data(_lang) = Null))
        => (err = "none" /\ ret = Str(AllUndefined(arg.s)))

(* C5: a token whose key flatten did not emit for the document of the active
   language (names of built-in members of a plain object included) is replaced
   in place by the text "undefined", and no error is raised. *)
C5_MissingKeyUndefined ==
    (/\ LocalizedText
     /\ ActiveDocument # <<>>
     /\ \A tok \in TokensOf(arg.s) : KeyOf(arg.s, tok) \notin DOMAIN d.props
     /\ ~ContainsToken(AllUndefined(arg.s)))
        => (err = "none" /\ ret = Str(AllUndefined(arg.s)))

\* the keys of the table t that the value of key k holds a token for
Refs(t, k) ==
    LET v == JSString(t[k])
    IN  {KeyOf(v, tok) : tok \in TokensOf(v)} \cap DOMAIN t

\* the keys reached from the keys S through n further values
RECURSIVE Reached(_, _, _)
Reached(t, S, n) ==
    IF n = 0 THEN S
    ELSE Reached(t, S \cup UNION {Refs(t, k) : k \in S}, n - 1)

\* no value holds a token for a key whose value, directly or through further
\* values, holds a token leading back to the first key
Acyclic(t) ==
    \A k \in DOMAIN t : k \notin Reached(t, Refs(t, k), Cardinality(DOMAIN t))

\* every '#' (the first character of the escape code) starts a whole token
WholeTokens(text) ==
    \A i \in 1..Len(text) :
        text[i] = Head(Prefix) => \E n \in 1..Len(text) : IsTokenAt(text, i, n)

WholeTokenValues(t) == \A k \in DOMAIN t : WholeTokens(JSString(t[k]))

\* the recursive expansion of text: every token replaced by the expansion of
\* the value of its key, or by "undefined" when the table has no such key;
\* depth bounds the nesting (the number of keys, when t is acyclic)
RECURSIVE ExpandFrom(_, _, _, _)
ExpandFrom(text, i, t, depth) ==
    IF i > Len(text) THEN <<>>
    ELSE IF \E n \in 1..Len(text) : IsTokenAt(text, i, n)
        THEN LET n == CHOOSE n \in 1..Len(text) : IsTokenAt(text, i, n)
                 key == KeyOf(text, <<i, n>>)
                 value == IF key \notin DOMAIN t THEN UndefinedText
                          ELSE IF depth = 0 THEN SubSeq(text, i, i + Len(Prefix) + n + Len(Suffix) - 1)
                          ELSE ExpandFrom(JSString(t[key]), 1, t, depth - 1)
             IN  value \o ExpandFrom(text, i + Len(Prefix) + n + Len(Suffix), t, depth)
        ELSE <<text[i]>> \o ExpandFrom(text, i + 1, t, depth)

Expand(text, t) == ExpandFrom(text, 1, t, Cardinality(DOMAIN t))

(* C6 as stated: for every table whose key references are acyclic, and every
   text, the loop of resolve ends. *)
C6_AcyclicTerminates ==
    (pc = "replace" /\ d.type = "table" /\ Acyclic(d.props)) ~> (pc = "returned")

(* C6, amended: for every table whose key references are acyclic and in whose
   values every '#' starts a whole token, and every text, the loop of resolve
   ends. *)
C6_WholeTokensTerminate ==
    (/\ pc = "replace"
     /\ d.type = "table"
     /\ Acyclic(d.props)
     /\ WholeTokenValues(d.props)) ~> (pc = "returned")

\* C6, witness: "#{a}" resolved in two passes against {"a": "x#{b}", "b": "y"}
C6_Witness ==
    /\ Localized
    /\ ActiveDocument = <<DocRef>>
    /\ arg = Str(TokA)
    /\ ret = Str(<<"x", "y">>)

(* C7: for acyclic key references resolve(text) is the recursive expansion of
   text: every token replaced by the expansion of the value of its key, or by
   "undefined" when the key is absent, every other character kept. *)
C7_RecursiveExpansion ==
    (LocalizedText /\ ActiveDocument # <<>> /\ Acyclic(d.props))
        => (err = "none" /\ ret = Str(Expand(arg.s, d.props)))

(* C8: the string resolve returns holds no token, and resolving it again
   returns it unchanged (shown here for every table, acyclic or not: a call
   that returns has reached a pass without a match). *)
C8_ResolveTwice ==
    /\ (Localized /\ err = "none" /\ ret.type = "string") => ~ContainsToken(ret.s)
    /\ (pc = "returned" /\ op = "relocalize") => (err = "none" /\ ret = arg)

\* C8, witness: the result "xy" of resolving "#{a}" was resolved again
C8_Witness ==
    /\ pc = "returned" /\ op = "relocalize"
    /\ ActiveDocument = <<DocRef>>
    /\ arg = Str(<<"x", "y">>)
    /\ ret = arg

(* C9: a string without a token is returned as it is, whatever the active
   language and its table (not loaded, or the fallback, included). *)
C9_TokenFreeUnchanged ==
    (LocalizedText /\ ~ContainsToken(arg.s)) => (err = "none" /\ ret = arg)

\* C9, witness: "#{}" (no key, so no token) resolved while en.json is not loaded
C9_Witness ==
    /\ LocalizedText
    /\ _lang = En
    /\ Data(_lang) = Null
    /\ arg = Str(<<"#", "{", "}">>)
    /\ ret = arg

\* the leaves of a document: <<path, value>>, the path being the keys and
\* indices from the root
RECURSIVE LeavesOf(_)
LeavesOf(node) ==
    UNION {LET e == node.props[i]
           IN  IF e.value.type = "object"
                   THEN {<<<<e.key>> \o l[1], l[2]>> : l \in LeavesOf(e.value)}
                   ELSE {<<<<e.key>>, e.value>>}
           : i \in 1..Len(node.props)}

RECURSIVE JoinPath(_)
JoinPath(path) ==
    IF Len(path) = 1 THEN path[1] ELSE path[1] \o <<".">> \o JoinPath(Tail(path))

\* the leaves are strings, numbers or booleans
ScalarLeaves(doc) ==
    \A l \in LeavesOf(doc) : l[2].type \in {"string", "number", "boolean"}

\* table holds one entry per leaf of doc, under its joined path, and no other
OneEntryPerLeaf(doc, table) ==
    /\ Cardinality(DOMAIN table) = Cardinality(LeavesOf(doc))
    /\ \A l \in LeavesOf(doc) :
          JoinPath(l[1]) \in DOMAIN table /\ table[JoinPath(l[1])] = l[2]

\* no two leaves join to the same key, and no leaf has the key "__proto__"
DistinctPlainKeys(doc) ==
    /\ \A l, m \in LeavesOf(doc) : JoinPath(l[1]) = JoinPath(m[1]) => l = m
    /\ \A l \in LeavesOf(doc) : l[1][Len(l[1])] # ProtoKey

(* C10 as stated: for every document with scalar leaves, flatten returns one
   entry per leaf, keyed by the joined path, mapped to the leaf's value, and
   no other key. *)
C10_OneEntryPerLeaf ==
    \A k \in DOMAIN src :
        (src[k] # <<>> /\ ScalarLeaves(src[k][1]))
            => OneEntryPerLeaf(src[k][1], _data[k].props)

(* C10, amended: so it is for every document with scalar leaves of which no
   two join to the same dotted key and none has the key "__proto__". *)
C10_DistinctKeysOneEntryPerLeaf ==
    \A k \in DOMAIN src :
        (src[k] # <<>> /\ ScalarLeaves(src[k][1]) /\ DistinctPlainKeys(src[k][1]))
            => OneEntryPerLeaf(src[k][1], _data[k].props)

\* C10, witness: {"a": ["x", "y"]} stored as {"a.0": "x", "a.1": "y"}
C10_Witness ==
    /\ languages = <<En>>
    /\ src[PropertyKey(En)] = <<DocArray>>
    /\ _data[PropertyKey(En)].props
           = (<<"a", ".", "0">> :> Str(<<"x">>)) @@ (<<"a", ".", "1">> :> Str(<<"y">>))

(* C11: when at least one language is configured, the active language is a
   configured one in every state: after initialization, load callbacks,
   language sets with configured and other values, resolves, changes of the
   language option, and saving and applying the config. *)
C11_ActiveIsConfigured ==
    languages # <<>> => _lang \in Configured

\* C11, witness: French was active, a config with the language "it" (not
\* configured) was applied, English is active
C11_Witness ==
    /\ pc = "returned" /\ op = "applyData"
    /\ languages = <<En, De, Fr>>
    /\ before = Fr
    /\ arg = It
    /\ _lang = En

\* the passes of _replace on text against the table t, to the first text
\* without a match
RECURSIVE Resolve(_, _)
Resolve(text, t) ==
    IF HasMatch(text) THEN Resolve(ReplaceAll(text, t), t) ELSE text

(* C12: a call of resolve, for every text, returning or raising, leaves the
   table of every language, the active language and the readiness as they
   were; and what it returns is fixed by the text and the table of the active
   language. *)
C12_ResolveReadsOnly ==
    /\ [][op' = "localize"
            => (_data' = _data /\ _lang' = _lang /\ _isReady' = _isReady)]_vars
    /\ []((LocalizedText /\ err = "none")
            => ret = (IF HasMatch(arg.s) THEN Str(Resolve(arg.s, d.props)) ELSE arg))

\* C12, witness: "#{a}" was resolved to "xy" with German active, its table
\* loaded, and the English table not loaded
C12_Witness ==
    /\ Localized
    /\ languages = <<En, De>>
    /\ _lang = De
    /\ Data(En) = Null
    /\ arg = Str(TokA)
    /\ ret = Str(<<"x", "y">>)

(* C13: the step of a completed load for a language stores the flattened
   document as that language's table and leaves the table of every other
   language and the active language as they were; so in every state the
   table of each language is the flattening of the document last loaded for
   it (null before the first), in whatever order the callbacks ran. *)
C13_LoadStoresFlattened ==
    /\ [][\A k \in DOMAIN pending, document \in SysDocuments :
            onload(k, document)
                => /\ _data'[k] = Table(_flatten(document))
                   /\ \A j \in DOMAIN _data \ {k} : _data'[j] = _data[j]
                   /\ _lang' = _lang]_vars
    /\ [](\A k \in DOMAIN src :
            _data[k] = (IF src[k] = <<>> THEN Null ELSE Table(_flatten(src[k][1]))))

\* C13, witness: tables stored for English and German from different
\* documents, German active, and a further English load in flight
C13_Witness ==
    /\ languages = <<En, De>>
    /\ _lang = De
    /\ src[PropertyKey(En)] = <<DocRef>>
    /\ src[PropertyKey(De)] = <<DocEmpty>>
    /\ _data[PropertyKey(En)] = Table(_flatten(DocRef))
    /\ _data[PropertyKey(De)] = Table(_flatten(DocEmpty))
    /\ pending[PropertyKey(En)] = 1

\* the key k of the table t lies on a reference cycle: its value holds a
\* token for a key whose value, directly or through further values, holds a
\* token for k (a token for k itself included)
OnCycle(t, k) ==
    k \in DOMAIN t /\ k \in Reached(t, Refs(t, k), Cardinality(DOMAIN t))

\* localize is in progress or over, called with a text that holds a token for
\* a key on a reference cycle of the active table
CyclicCall ==
    /\ op = "localize"
    /\ arg.type = "string"
    /\ d.type = "table"
    /\ \E tok \in TokensOf(arg.s) : OnCycle(d.props, KeyOf(arg.s, tok))

(* C14: a call of resolve with a text that holds a token for a key on a
   reference cycle of the active table never returns and never raises: at
   every moment of the call the text still holds a token, so every pass finds
   a match and the loop, which has no bound on its passes, goes on. *)
C14_CycleNeverReturns ==
    CyclicCall => (pc = "replace" /\ ContainsToken(r))

\* C14, witness: "#{a}" against {"a": "#{b}", "b": "#{a}"} after a pass
C14_Witness ==
    /\ CyclicCall
    /\ ActiveDocument = <<DocCycle>>
    /\ arg = Str(TokA)
    /\ r = TokB

(* C15: _inDrawTextEx is true exactly while a drawTextEx call is in progress
   (nested calls and calls that ended with an error included); so
   Bitmap.drawText passes its text on as it is inside a drawTextEx call, and
   passes on a text without a token outside one. *)
C15_MarkerWhileDrawing ==
    /\ _inDrawTextEx <=> calls > 0
    /\ (pc = "returned" /\ op = "drawText" /\ err = "none")
           => (IF calls > 0 THEN ret = arg ELSE ~ContainsToken(ret.s))

\* the language that follows l in the configured list, the first after the last
Following(l) ==
    LET i == CHOOSE j \in 1..Len(languages) : languages[j] = l
    IN  languages[IF i = Len(languages) THEN 1 ELSE i + 1]

\* the language that precedes l in the configured list, the last before the first
Preceding(l) ==
    LET i == CHOOSE j \in 1..Len(languages) : languages[j] = l
    IN  languages[IF i = 1 THEN Len(languages) ELSE i - 1]

(* C16: for every configured language l, _nextLanguage(l) is the language
   that follows l in the configured list (the first one after the last), and
   _prevLanguage(l) the one that precedes it (the last one before the first);
   Ok and Right on the language option select the former, Left the latter. *)
C16_NextFollowsPrevPrecedes ==
    (pc = "returned" /\ op \in {"processOk", "cursorLeft", "cursorRight"}) =>
        /\ \A l \in Configured :
              _nextLanguage(l) = Following(l) /\ _prevLanguage(l) = Preceding(l)
        /\ arg \in Configured =>
              _language = (IF op = "cursorLeft" THEN Preceding(arg) ELSE Following(arg))

\* makeData or applyData has ended, by returning or by raising
ConfigDone == pc = "returned" /\ op \in {"makeData", "applyData"}

(* C17: immediately after ConfigManager.makeData or ConfigManager.applyData,
   ConfigManager.language and the core's active language are the same
   configured language: the one that was selected or saved if it is
   configured, the first configured language otherwise; the language makeData
   writes to the config, and a configured language applyData reads from it,
   is that language too.  (At least one language is configured.) *)
C17_ConfigInSync ==
    (ConfigDone /\ languages # <<>>) =>
        /\ _language = _lang
        /\ _lang \in Configured
        /\ _lang = (IF arg \in Configured THEN arg ELSE Default)
        /\ (op = "makeData" \/ arg \in Configured) => config = _lang

\* the handlers of the language option
OptionHandlers == {"processOk", "cursorLeft", "cursorRight"}

(* C18: Ok, Left and Right on the language option write ConfigManager.language
   and leave the core's active language as it was; the active language
   changes only in a step of the setter of IAVRA.I18N.language, which the menu
   plugin calls from makeData and applyData alone. *)
C18_OptionLeavesActive ==
    /\ [][op' \in OptionHandlers => _lang' = _lang]_vars
    /\ [][_lang' # _lang => (pc = "idle" /\ op' \in Setters)]_vars

\* C18, witness: Right has selected a language other than the active one
C18_Witness ==
    /\ pc = "returned" /\ op = "cursorRight"
    /\ languages = <<En, De, Fr>>
    /\ _lang = De
    /\ arg = De
    /\ _language \in Configured \ {De}

\* the entries flatten emits for the entries es from i on, in the order of
\* its traversal: <<joined key, value>>, one per value that is no object
RECURSIVE VisitsFrom(_, _)
VisitsFrom(es, i) ==
    IF i > Len(es) THEN <<>>
    ELSE LET e == es[i]
             below == VisitsFrom(ForIn(e.value), 1)
         IN  (IF TypeOf(e.value) = "object"
                  THEN [j \in 1..Len(below) |->
                           <<e.key \o <<".">> \o below[j][1], below[j][2]>>]
                  ELSE <<<<e.key, e.value>>>>)
             \o VisitsFrom(es, i + 1)

Visits(doc) == VisitsFrom(ForIn(doc), 1)

\* the places in the traversal of doc at which the joined key is key
VisitsOf(doc, key) == {i \in 1..Len(Visits(doc)) : Visits(doc)[i][1] = key}

\* the value of the entry for key that the traversal of doc visits last
LastVisited(doc, key) ==
    LET i == CHOOSE i \in VisitsOf(doc, key) : \A j \in VisitsOf(doc, key) : j <= i
    IN  Visits(doc)[i][2]

(* C19: when two distinct paths of a document join to the same dotted key,
   the table flatten returns holds that key once, with the value of the
   entry the traversal visits later; flatten raises no error and the table is
   stored. *)
C19_LaterVisitedWins ==
    \A k \in DOMAIN src :
        src[k] # <<>> =>
            \A i \in 1..Len(Visits(src[k][1])) :
                LET key == Visits(src[k][1])[i][1]
                IN  Cardinality(VisitsOf(src[k][1], key)) >= 2
                        => /\ _data[k].type = "table"
                           /\ key \in DOMAIN _data[k].props
                           /\ _data[k].props[key] = LastVisited(src[k][1], key)

\* C19, witness: {"a": {"b": "y"}, "a.b": "x"} is stored as {"a.b": "x"}
C19_Witness ==
    /\ languages = <<En>>
    /\ src[PropertyKey(En)] = <<DocCollideLater>>
    /\ _data[PropertyKey(En)].props = (<<"a", ".", "b">> :> Str(<<"x">>))

\* a load callback has run for the language l, if l is configured
CallbackRan(l) == l \in Configured => src[PropertyKey(l)] # <<>>

(* C20: if the load callback of every configured language eventually runs,
   in whatever order, _isReady eventually is true; and once it is true it is
   true in every later state, whatever load callbacks, initializations,
   language changes and resolves follow. *)
C20_ReadyReachedAndKept ==
    /\ (\A l \in {En, De} : <>CallbackRan(l)) => <>_isReady
    /\ [](_isReady => []_isReady)

\* C20, witness: ready with both languages loaded, German first made active,
\* and a second initialization with an English load in flight
C20_Witness ==
    /\ languages = <<En, De>>
    /\ _isReady
    /\ AllStored
    /\ _lang = De
    /\ pending[PropertyKey(En)] = 1
    /\ pending[PropertyKey(De)] = 0

====
